---- MODULE Spec2Model ----
(***************************************************************************)
(* Model of cmd/get-commenters.go: the "get commenters" batch command.     *)
(*                                                                         *)
(* A string that the program inspects character by character (a CSV data   *)
(* field, a work item) is a sequence of one-character strings; a header    *)
(* field, which is only compared for equality, is a TLA+ string.           *)
(***************************************************************************)
EXTENDS Integers, Sequences, FiniteSets, TLC

(***************************************************************************)
(* Bounds of the model.                                                    *)
(***************************************************************************)
\* largest number of data rows of an input file
MaxRows == 3
\* largest comment count the fetch collaborator returns for one PR
MaxCount == 3
\* longest header / reference schema handed to validateHeader on its own
MaxHdrLen == 3

(***************************************************************************)
(* Characters and character classes of Go's regexp (RE2) and strings.      *)
(***************************************************************************)
UpperSeq == <<"A", "B", "C", "D", "E", "F", "G", "H", "I", "J", "K", "L", "M",
              "N", "O", "P", "Q", "R", "S", "T", "U", "V", "W", "X", "Y", "Z">>
LowerSeq == <<"a", "b", "c", "d", "e", "f", "g", "h", "i", "j", "k", "l", "m",
              "n", "o", "p", "q", "r", "s", "t", "u", "v", "w", "x", "y", "z">>
DigitSeq == <<"0", "1", "2", "3", "4", "5", "6", "7", "8", "9">>

\* U+212A KELVIN SIGN: not an ASCII letter, lower-cased to ASCII "k" by Go
KelvinSign == "U+212A"

Range(s) == {s[i] : i \in 1..Len(s)}

\* \d of RE2: ASCII digits only
PerlDigit == Range(DigitSeq)
\* \w of RE2: [0-9A-Za-z_]
PerlWord == Range(DigitSeq) \cup Range(UpperSeq) \cup Range(LowerSeq) \cup {"_"}
\* the class [\w-\.] of prj_regexp: word characters, hyphen, dot
PrjClass == PerlWord \cup {"-", "."}
\* the class [\d] of pr_regexp
PrClass == PerlDigit

\* unicode.ToLower on one character
ToLowerChar(c) ==
    IF c \in Range(UpperSeq)
    THEN LowerSeq[CHOOSE i \in 1..Len(UpperSeq) : UpperSeq[i] = c]
    ELSE IF c = KelvinSign THEN "k" ELSE c

\* strings.ToLower
ToLower(s) == [i \in 1..Len(s) |-> ToLowerChar(s[i])]

\* the anchored match ^[class]+$ : consume class characters from position i,
\* at least one, and succeed only at the end of the text
RECURSIVE MatchPlus(_, _, _)
MatchPlus(class, s, i) ==
    IF i > Len(s) THEN i > 1
    ELSE IF s[i] \in class THEN MatchPlus(class, s, i + 1)
    ELSE FALSE

\* prj_regexp.MatchString
PrjRegexpMatch(s) == MatchPlus(PrjClass, s, 1)

\* the number pattern without its anchors: a digit somewhere is enough
PrRegexpMatch_unanchored(s) == \E i \in 1..Len(s) : s[i] \in PrClass

\* pr_regexp.MatchString
PrRegexpMatch(s) == MatchPlus(PrClass, s, 1)

\* isValidOrgFormat lives in another file of the package: non-empty and
\* made only of characters allowed in an organisation slug
OrgAlphabet == Range(DigitSeq) \cup Range(UpperSeq) \cup Range(LowerSeq) \cup {"-"}
isValidOrgFormat(org) ==
    /\ Len(org) > 0
    /\ \A i \in 1..Len(org) : org[i] \in OrgAlphabet

\* fmt.Sprintf("%s/%s/%s", org, prj, prNbr)
FormatPrInfo(org, prj, prNbr) == org \o <<"/">> \o prj \o <<"/">> \o prNbr

(***************************************************************************)
(* validateHeader                                                          *)
(***************************************************************************)
referenceCSVheader ==
    <<"org", "repository", "number", "url", "state", "created_at",
      "merged_at", "user.login", "month_year", "title">>

\* the header loop stopping before the last field
RECURSIVE HeaderLoop_skipsLast(_, _, _, _)
HeaderLoop_skipsLast(header, referenceHeader, i, isVerbose) ==
    IF i >= Len(header) THEN [ok |-> TRUE, out |-> <<>>]
    ELSE IF header[i] # referenceHeader[i]
         THEN [ok  |-> FALSE,
               out |-> IF isVerbose
                       THEN <<"Error: not the expected header field">>
                       ELSE <<>>]
         ELSE HeaderLoop_skipsLast(header, referenceHeader, i + 1, isVerbose)

\* the loop of validateHeader from index i on: the first mismatch ends it
RECURSIVE HeaderLoop(_, _, _, _)
HeaderLoop(header, referenceHeader, i, isVerbose) ==
    IF i > Len(header) THEN [ok |-> TRUE, out |-> <<>>]
    ELSE IF header[i] # referenceHeader[i]
         THEN [ok  |-> FALSE,
               out |-> IF isVerbose
                       THEN <<"Error: not the expected header field">>
                       ELSE <<>>]
         ELSE HeaderLoop(header, referenceHeader, i + 1, isVerbose)

\* ok: the boolean returned; out: what it printed
validateHeader(header, referenceHeader, isVerbose) ==
    IF Len(header) # Len(referenceHeader)
    THEN [ok  |-> FALSE,
          out |-> IF isVerbose THEN <<"Error: field number mismatch">> ELSE <<>>]
    ELSE HeaderLoop(header, referenceHeader, 1, isVerbose)

(***************************************************************************)
(* loadPrListFile                                                          *)
(*                                                                         *)
(* An input file is a record                                               *)
(*   openable : os.Open succeeds                                           *)
(*   empty    : the file holds no CSV record (r.Read returns io.EOF)       *)
(*   header   : the first CSV record                                       *)
(*   rows     : the CSV records after the first                            *)
(***************************************************************************)
Failure(out) == [prList |-> <<>>, result |-> FALSE, out |-> out]

\* r.ReadAll: the reader fixes the field count on the first record and
\* reports ErrFieldCount on a record of another length; on success it
\* returns the records after the header
ReadAllFails(file) == \E i \in 1..Len(file.rows) : Len(file.rows[i]) # Len(file.header)
ReadAll(file) == file.rows

\* the test for data left out
NoDataAvailable_never(records) == FALSE

\* the test "if len(records) < 2"
NoDataAvailable(records) == Len(records) < 2

\* the validation loop over the records from index i on, prList being the
\* list built so far
RECURSIVE CheckRecords(_, _, _, _, _)
CheckRecords(records, i, prList, isVerbose, out) ==
    IF i > Len(records)
    THEN [prList |-> prList, result |-> TRUE,
          out |-> out \o (IF isVerbose THEN <<"Successfully loaded">> ELSE <<>>)]
    ELSE LET dataLine == records[i]
             org      == dataLine[1]
             prj      == dataLine[2]
             prNbr    == dataLine[3]
         IN  IF ~isValidOrgFormat(org)
             THEN Failure(out \o (IF isVerbose THEN <<"Error: ORG field">> ELSE <<>>))
             ELSE IF ~PrjRegexpMatch(ToLower(prj))
             THEN Failure(out \o (IF isVerbose THEN <<"Error: PRJ field">> ELSE <<>>))
             ELSE IF ~PrRegexpMatch(prNbr)
             THEN Failure(out \o (IF isVerbose THEN <<"Error: PR field">> ELSE <<>>))
             ELSE CheckRecords(records, i + 1,
                               Append(prList, FormatPrInfo(org, prj, prNbr)),
                               isVerbose, out)

loadPrListFile(file, isVerbose) ==
    IF ~file.openable THEN Failure(<<"log: Unable to read input file">>)
    ELSE IF file.empty THEN Failure(<<"log: Unexpected error loading">>)
    ELSE
      LET out1 == IF isVerbose THEN <<"Checking input file">> ELSE <<>>
          vh   == validateHeader(file.header, referenceCSVheader, isVerbose)
      IN  IF ~vh.ok
          THEN Failure(out1 \o vh.out \o <<"Error: header is incorrect.">>)
          ELSE
            LET out2 == out1 \o (IF isVerbose THEN <<"Header is correct">> ELSE <<>>)
            IN  IF ReadAllFails(file)
                THEN Failure(out2 \o <<"log: Unexpected error loading">>)
                ELSE IF NoDataAvailable(ReadAll(file))
                THEN Failure(out2 \o <<"Error: No data available after the header">>)
                ELSE CheckRecords(ReadAll(file), 1, <<>>, isVerbose,
                         out2 \o (IF isVerbose
                                  THEN <<"At least one Pull Request data available">>
                                  ELSE <<>>))

(***************************************************************************)
(* Collaborators of performAction that live in other files of the package. *)
(***************************************************************************)
\* the output file on disk: exists, and its lines when it does
NoFile == [exists |-> FALSE, content |-> <<>>]

\* fileExist(outputFileName)
fileExist(f) == f.exists

\* os.Remove(outputFileName)
Remove(f) == NoFile

\* checkIfSufficientQuota either returns (TRUE) or ends the process (FALSE)
QuotaOutcomes == BOOLEAN

\* getCommenters' effect on the output file: one line per comment found for
\* the PR, added to the existing lines when appending, replacing them otherwise
getCommentersWrite(f, prSpec, isAppendFlag, count) ==
    [exists  |-> TRUE,
     content |-> (IF f.exists /\ isAppendFlag THEN f.content ELSE <<>>)
                 \o [i \in 1..count |-> prSpec]]

(***************************************************************************)
(* Inputs.                                                                 *)
(***************************************************************************)
Acme      == <<"a", "c", "m", "e">>
WidgetApi == <<"w", "i", "d", "g", "e", "t", "-", "a", "p", "i">>
\* a project name with upper-case letters, a dot and a Kelvin sign
MixedPrj  == <<"W", ".", KelvinSign>>
N42       == <<"4", "2">>

OrgFields == {Acme, <<"a", "/", "b">>}
PrjFields == {WidgetApi, MixedPrj, <<"a", " ", "b">>}
NbrFields == {N42, <<"4", "a", "2">>, <<"1", "2", "a">>, <<"-", "5">>, <<>>, <<"7">>}

\* the seven fields after org, repository, number are passed through
PassThrough == [i \in 1..7 |-> <<"x">>]
Row(org, prj, nbr) == <<org, prj, nbr>> \o PassThrough
\* a record with a field too few
ShortRow == <<Acme, WidgetApi, N42>> \o SubSeq(PassThrough, 1, 6)

HdrMissingColumn == <<"org", "repository", "number", "state", "created_at",
                      "merged_at", "user.login", "month_year", "title">>
HdrWrongCase == <<"Org", "repository", "number", "url", "state", "created_at",
                  "merged_at", "user.login", "month_year", "title">>
Headers == {referenceCSVheader, HdrMissingColumn, HdrWrongCase}

SeqsUpTo(S, n) == UNION {[1..k -> S] : k \in 0..n}

CsvFile(header, rows) ==
    [openable |-> TRUE, empty |-> FALSE, header |-> header, rows |-> rows]
UnreadableFile == [openable |-> FALSE, empty |-> FALSE, header |-> <<>>, rows |-> <<>>]
EmptyFile == [openable |-> TRUE, empty |-> TRUE, header |-> <<>>, rows |-> <<>>]

\* input files of the runs of performAction
RunRows == {Row(Acme, WidgetApi, N42), Row(Acme, MixedPrj, <<"7">>),
            Row(Acme, WidgetApi, <<"4", "a", "2">>)}
RunFiles ==
    {UnreadableFile, EmptyFile}
    \cup {CsvFile(h, <<>>) : h \in Headers}
    \cup {CsvFile(HdrMissingColumn, <<Row(Acme, WidgetApi, N42)>>)}
    \cup {CsvFile(referenceCSVheader, rows) : rows \in SeqsUpTo(RunRows, MaxRows)}

\* input files of loadPrListFile on its own
MaxLoadRows == 2
LoadRows == {Row(o, p, n) : o \in OrgFields, p \in PrjFields, n \in NbrFields}
            \cup {ShortRow}
LoadFiles ==
    {UnreadableFile, EmptyFile}
    \cup {CsvFile(h, rows) : h \in Headers, rows \in SeqsUpTo(LoadRows, MaxLoadRows)}

HdrFields == {"org", "Org", "number"}
HdrSeqs == SeqsUpTo(HdrFields, MaxHdrLen)

OldContent == <<<<"o", "l", "d">>>>
OutputFilesAtStart == {NoFile, [exists |-> TRUE, content |-> OldContent]}
OutputFileNames == {"out.csv"}

(***************************************************************************)
(* State.                                                                  *)
(***************************************************************************)
VARIABLES
    pc,                 \* position in performAction
    inputFile,          \* the file named by the argument
    isVerbose,          \* flags of the run
    globalIsAppend,
    globalIsNoHeader,
    outputFileName,
    outputFile,         \* the output file on disk
    outputFileAtStart,  \* the output file when the run started
    stdout,             \* messages printed so far
    prList,             \* performAction's locals
    isAppend,
    nbrOfComments,
    nbrPR_noComment,
    nbrPR_withComments,
    totalComments,
    idx,                \* position of the range loop in prList
    barAdds,            \* calls of bar.Add
    barErrLogged,       \* the last bar.Add returned an error, which was logged
    quotaCalls,         \* arguments of the calls of checkIfSufficientQuota
    fetchCalls,         \* arguments of the calls of getCommenters
    fetchCounts,        \* counts returned by the calls of getCommenters
    summary,            \* the three numbers of the final report
    exitCode,           \* status of os.Exit
    vhCalls             \* calls of validateHeader with their results

vars == <<pc, inputFile, isVerbose, globalIsAppend, globalIsNoHeader,
          outputFileName, outputFile, outputFileAtStart, stdout, prList,
          isAppend, nbrOfComments, nbrPR_noComment, nbrPR_withComments,
          totalComments, idx, barAdds, barErrLogged, quotaCalls, fetchCalls,
          fetchCounts, summary, exitCode, vhCalls>>

flags == <<inputFile, isVerbose, globalIsAppend, globalIsNoHeader,
           outputFileName, outputFileAtStart>>
locals == <<prList, isAppend, nbrOfComments, nbrPR_noComment,
            nbrPR_withComments, totalComments, idx, barAdds, barErrLogged>>

InitLocals ==
    /\ stdout = <<>>
    /\ prList = <<>>
    /\ isAppend = FALSE
    /\ nbrOfComments = 0
    /\ nbrPR_noComment = 0
    /\ nbrPR_withComments = 0
    /\ totalComments = 0
    /\ idx = 0
    /\ barAdds = 0
    /\ barErrLogged = FALSE
    /\ quotaCalls = <<>>
    /\ fetchCalls = <<>>
    /\ fetchCounts = <<>>
    /\ summary = <<>>
    /\ exitCode = 0
    /\ vhCalls = <<>>

Init ==
    /\ pc = "load"
    /\ inputFile \in RunFiles
    /\ isVerbose \in BOOLEAN
    /\ globalIsAppend \in BOOLEAN
    /\ globalIsNoHeader \in BOOLEAN
    /\ outputFileName \in OutputFileNames
    /\ outputFile \in OutputFilesAtStart
    /\ outputFileAtStart = outputFile
    /\ InitLocals

(***************************************************************************)
(* performAction, one action per step.                                     *)
(***************************************************************************)
\* the call of validateHeader that loadPrListFile makes, if it gets there
HeaderCall(file, verbose) ==
    IF file.openable /\ ~file.empty
    THEN LET vh == validateHeader(file.header, referenceCSVheader, verbose)
         IN  <<[header |-> file.header, referenceHeader |-> referenceCSVheader,
                isVerbose |-> verbose, ok |-> vh.ok, out |-> vh.out]>>
    ELSE <<>>

\* the load whose failure is reported but does not end the run
Load_continues ==
    /\ pc = "load"
    /\ LET r == loadPrListFile(inputFile, isVerbose)
       IN  /\ prList' = r.prList
           /\ vhCalls' = HeaderCall(inputFile, isVerbose)
           /\ stdout' = IF ~r.result
                        THEN <<"Processing">> \o r.out \o <<"Could not load">>
                        ELSE <<"Processing">> \o r.out
           /\ exitCode' = exitCode
           /\ pc' = "prepare"
    /\ UNCHANGED <<flags, outputFile, isAppend, nbrOfComments, nbrPR_noComment,
                   nbrPR_withComments, totalComments, idx, barAdds,
                   barErrLogged, quotaCalls, fetchCalls, fetchCounts, summary>>

\* read the data from the file and check it; leave with status 1 on failure
Load ==
    /\ pc = "load"
    /\ LET r == loadPrListFile(inputFile, isVerbose)
       IN  /\ prList' = r.prList
           /\ vhCalls' = HeaderCall(inputFile, isVerbose)
           /\ IF ~r.result
              THEN /\ stdout' = <<"Processing">> \o r.out \o <<"Could not load">>
                   /\ exitCode' = 1
                   /\ pc' = "exited"
              ELSE /\ stdout' = <<"Processing">> \o r.out
                   /\ exitCode' = exitCode
                   /\ pc' = "prepare"
    /\ UNCHANGED <<flags, outputFile, isAppend, nbrOfComments, nbrPR_noComment,
                   nbrPR_withComments, totalComments, idx, barAdds,
                   barErrLogged, quotaCalls, fetchCalls, fetchCounts, summary>>

\* the append flag left as the run chose it
AppendFlag_asChosen(globalFlag) == globalFlag

\* the append flag handed to getCommenters
AppendFlag(globalFlag) == IF ~globalFlag THEN TRUE ELSE globalFlag

\* the preparation removing the file in either mode
PreparedFile_alwaysRemoves(globalFlag, f) == IF fileExist(f) THEN Remove(f) ELSE f

\* the output file after the preparation
PreparedFile(globalFlag, f) ==
    IF ~globalFlag /\ fileExist(f) THEN Remove(f) ELSE f

PrepareOutput ==
    /\ pc = "prepare"
    /\ isAppend' = AppendFlag(globalIsAppend)
    /\ outputFile' = PreparedFile(globalIsAppend, outputFile)
    /\ pc' = "quota"
    /\ UNCHANGED <<flags, stdout, prList, nbrOfComments, nbrPR_noComment,
                   nbrPR_withComments, totalComments, idx, barAdds,
                   barErrLogged, quotaCalls, fetchCalls, fetchCounts, summary,
                   exitCode, vhCalls>>

\* the quota asked for one item too few
QuotaArg_offByOne(list) == Len(list) - 1

\* the argument of checkIfSufficientQuota
QuotaArg(list) == Len(list)

\* the quota check on the length of the list, then the set-up of the loop
QuotaPreflight ==
    /\ pc = "quota"
    /\ quotaCalls' = Append(quotaCalls, QuotaArg(prList))
    /\ \E sufficient \in QuotaOutcomes :
          IF sufficient
          THEN /\ pc' = "fetch"
               /\ idx' = 1
               /\ barAdds' = 0
               /\ nbrPR_noComment' = 0
               /\ nbrPR_withComments' = 0
               /\ totalComments' = 0
          ELSE /\ pc' = "halted"
               /\ UNCHANGED <<idx, barAdds, nbrPR_noComment,
                              nbrPR_withComments, totalComments>>
    /\ UNCHANGED <<flags, outputFile, stdout, prList, isAppend, nbrOfComments,
                   barErrLogged, fetchCalls, fetchCounts, summary, exitCode,
                   vhCalls>>

\* the arguments of the call of getCommenters for the item pr_line
FetchArgs(pr_line) ==
    [prSpec |-> pr_line, isAppend |-> isAppend,
     isNoHeader |-> globalIsNoHeader, fileName |-> outputFileName]

\* the loop handing over the first item every time
LoopItem_first(list, i) == list[1]

\* the item the loop hands to getCommenters at position i
LoopItem(list, i) == list[i]

Fetch ==
    /\ pc = "fetch"
    /\ idx <= Len(prList)
    /\ \E count \in 0..MaxCount :
          LET args == FetchArgs(LoopItem(prList, idx))
          IN  /\ fetchCalls' = Append(fetchCalls, args)
              /\ fetchCounts' = Append(fetchCounts, count)
              /\ nbrOfComments' = count
              /\ outputFile' = getCommentersWrite(outputFile, args.prSpec,
                                                  args.isAppend, count)
    /\ pc' = "account"
    /\ UNCHANGED <<flags, stdout, prList, isAppend, nbrPR_noComment,
                   nbrPR_withComments, totalComments, idx, barAdds,
                   barErrLogged, quotaCalls, summary, exitCode, vhCalls>>

\* the tally without comments counting every PR
NoCommentAfter_always(noComment, n) == noComment + 1

\* the tallies after a PR with n comments
NoCommentAfter(noComment, n) == IF n = 0 THEN noComment + 1 ELSE noComment
WithCommentsAfter(withComments, n) == IF n = 0 THEN withComments ELSE withComments + 1
TotalAfter(total, n) == total + n

Account ==
    /\ pc = "account"
    /\ totalComments' = TotalAfter(totalComments, nbrOfComments)
    /\ nbrPR_noComment' = NoCommentAfter(nbrPR_noComment, nbrOfComments)
    /\ nbrPR_withComments' = WithCommentsAfter(nbrPR_withComments, nbrOfComments)
    /\ pc' = "progress"
    /\ UNCHANGED <<flags, outputFile, stdout, prList, isAppend, nbrOfComments,
                   idx, barAdds, barErrLogged, quotaCalls, fetchCalls,
                   fetchCounts, summary, exitCode, vhCalls>>

\* the progress bar in quiet mode, then the next item
Progress ==
    /\ pc = "progress"
    /\ IF ~isVerbose
       THEN /\ barAdds' = barAdds + 1
            /\ \E err \in BOOLEAN : barErrLogged' = err
       ELSE UNCHANGED <<barAdds, barErrLogged>>
    /\ idx' = idx + 1
    /\ pc' = "fetch"
    /\ UNCHANGED <<flags, outputFile, stdout, prList, isAppend, nbrOfComments,
                   nbrPR_noComment, nbrPR_withComments, totalComments,
                   quotaCalls, fetchCalls, fetchCounts, summary, exitCode,
                   vhCalls>>

\* the loop is over: print the three numbers
Report ==
    /\ pc = "fetch"
    /\ idx > Len(prList)
    /\ summary' = <<nbrPR_noComment, nbrPR_withComments, totalComments>>
    /\ pc' = "done"
    /\ UNCHANGED <<flags, outputFile, stdout, prList, isAppend, nbrOfComments,
                   nbrPR_noComment, nbrPR_withComments, totalComments, idx,
                   barAdds, barErrLogged, quotaCalls, fetchCalls, fetchCounts,
                   exitCode, vhCalls>>

Next ==
    \/ Load
    \/ PrepareOutput
    \/ QuotaPreflight
    \/ Fetch
    \/ Account
    \/ Progress
    \/ Report

Spec == Init /\ [][Next]_vars

(***************************************************************************)
(* loadPrListFile on its own, over a larger set of files.                  *)
(***************************************************************************)
InitLoad ==
    /\ pc = "load"
    /\ inputFile \in LoadFiles
    /\ isVerbose \in BOOLEAN
    /\ globalIsAppend = FALSE
    /\ globalIsNoHeader = FALSE
    /\ outputFileName \in OutputFileNames
    /\ outputFile = NoFile
    /\ outputFileAtStart = outputFile
    /\ InitLocals

NextLoad == Load

SpecLoad == InitLoad /\ [][NextLoad]_vars

(***************************************************************************)
(* validateHeader on its own, over all headers and reference schemas.      *)
(***************************************************************************)
InitHeader ==
    /\ pc = "header"
    /\ inputFile = EmptyFile
    /\ isVerbose = FALSE
    /\ globalIsAppend = FALSE
    /\ globalIsNoHeader = FALSE
    /\ outputFileName \in OutputFileNames
    /\ outputFile = NoFile
    /\ outputFileAtStart = outputFile
    /\ InitLocals

CallValidateHeader ==
    /\ pc = "header"
    /\ vhCalls = <<>>
    /\ \E header \in HdrSeqs, referenceHeader \in HdrSeqs, verbose \in BOOLEAN :
          LET vh == validateHeader(header, referenceHeader, verbose)
          IN  vhCalls' = Append(vhCalls,
                  [header |-> header, referenceHeader |-> referenceHeader,
                   isVerbose |-> verbose, ok |-> vh.ok, out |-> vh.out])
    /\ UNCHANGED <<pc, flags, outputFile, stdout, locals, quotaCalls,
                   fetchCalls, fetchCounts, summary, exitCode>>

NextHeader == CallValidateHeader

SpecHeader == InitHeader /\ [][NextHeader]_vars

(***************************************************************************)
(* Properties.                                                             *)
(***************************************************************************)
\* what the documentation asks of a data row, stated without the program's
\* matchers: the organisation is accepted, the lower-cased project is one or
\* more of [0-9a-z_.-] and the number is one or more ASCII digits
DocDigits == {"0", "1", "2", "3", "4", "5", "6", "7", "8", "9"}
DocRowPasses(row) ==
    /\ isValidOrgFormat(row[1])
    /\ Len(row[2]) >= 1
    /\ \A i \in 1..Len(row[2]) :
          ToLower(row[2])[i] \in DocDigits \cup Range(LowerSeq) \cup {"_", ".", "-"}
    /\ Len(row[3]) >= 1
    /\ \A i \in 1..Len(row[3]) : row[3][i] \in DocDigits
DocWorkItem(row) == row[1] \o <<"/">> \o row[2] \o <<"/">> \o row[3]
HasValidHeader == inputFile.openable /\ ~inputFile.empty
                  /\ inputFile.header = referenceCSVheader
IsPrefix(s, t) == Len(s) <= Len(t) /\ SubSeq(t, 1, Len(s)) = s
RECURSIVE SumSeq(_)
SumSeq(s) == IF s = <<>> THEN 0 ELSE s[1] + SumSeq(Tail(s))

\* C1: a file with the reference header and N >= 1 data rows, all of ten
\* fields and all passing the org/project/number checks, loads successfully
\* into exactly N items, item i being "org/project/number" of row i
C1_EveryValidFileLoads ==
    (/\ pc # "load"
     /\ HasValidHeader
     /\ Len(inputFile.rows) >= 1
     /\ \A i \in 1..Len(inputFile.rows) :
           Len(inputFile.rows[i]) = 10 /\ DocRowPasses(inputFile.rows[i]))
    => /\ pc = "prepare"
       /\ prList = [i \in 1..Len(inputFile.rows) |-> DocWorkItem(inputFile.rows[i])]

\* C2: with a valid header, one data row failing a check makes the load fail
\* with no work list, wherever the row is; and a returned work list has one
\* item per row, each from a row that passed the three checks
C2_AllOrNothing ==
    (pc # "load" /\ HasValidHeader)
    => /\ (\E i \in 1..Len(inputFile.rows) : ~DocRowPasses(inputFile.rows[i]))
          => (pc = "exited" /\ prList = <<>>)
       /\ pc = "prepare"
          => /\ Len(prList) = Len(inputFile.rows)
             /\ \A i \in 1..Len(prList) :
                   /\ DocRowPasses(inputFile.rows[i])
                   /\ prList[i] = DocWorkItem(inputFile.rows[i])

\* a load that failed on the last of two rows, whose number is "4a2"
C2_Witness ==
    /\ pc = "exited"
    /\ HasValidHeader
    /\ Len(inputFile.rows) = 2
    /\ DocRowPasses(inputFile.rows[1])
    /\ inputFile.rows[2] = Row(Acme, WidgetApi, <<"4", "a", "2">>)
    /\ prList = <<>>

\* C3: validateHeader returns true exactly when header and reference have the
\* same length and the same field at every position, whatever the verbose flag
C3_ValidateHeaderIff ==
    \A k \in 1..Len(vhCalls) :
       LET c == vhCalls[k]
       IN  /\ c.ok <=> (/\ Len(c.header) = Len(c.referenceHeader)
                        /\ \A i \in 1..Len(c.header) :
                              c.header[i] = c.referenceHeader[i])
           /\ c.ok = validateHeader(c.header, c.referenceHeader, ~c.isVerbose).ok

\* a verbose call on a header of several fields that was accepted
C3_Witness ==
    /\ pc = "header"
    /\ Len(vhCalls) = 1
    /\ vhCalls[1].ok
    /\ vhCalls[1].isVerbose
    /\ Len(vhCalls[1].header) >= 2

\* C4: a file with a valid header and no data row is rejected: the load fails
\* with no work list and the run ends before the output preparation, the
\* quota check and any fetch
C4_HeaderOnlyRejected ==
    (pc # "load" /\ HasValidHeader /\ inputFile.rows = <<>>)
    => /\ pc = "exited"
       /\ prList = <<>>
       /\ outputFile = outputFileAtStart
       /\ quotaCalls = <<>>
       /\ fetchCalls = <<>>

\* a run ended on a header-only file
C4_Witness ==
    /\ pc = "exited"
    /\ HasValidHeader
    /\ inputFile.rows = <<>>
    /\ stdout[Len(stdout) - 1] = "Error: No data available after the header"

\* C5: after the accounting of the k-th item the tally without comments is the
\* number of zero counts returned so far, the tally with comments the number
\* of non-zero counts, the total their sum, and the two tallies sum to k; the
\* report shows these numbers for the whole list
C5_BatchAccounting ==
    LET k == Len(fetchCounts)
    IN  /\ pc \in {"progress", "fetch", "done"}
           => /\ nbrPR_noComment = Cardinality({i \in 1..k : fetchCounts[i] = 0})
              /\ nbrPR_withComments = Cardinality({i \in 1..k : fetchCounts[i] # 0})
              /\ totalComments = SumSeq(fetchCounts)
              /\ nbrPR_noComment + nbrPR_withComments = k
        /\ pc = "done"
           => /\ k = Len(prList)
              /\ summary = <<Cardinality({i \in 1..k : fetchCounts[i] = 0}),
                             Cardinality({i \in 1..k : fetchCounts[i] # 0}),
                             SumSeq(fetchCounts)>>

\* the batch of three items with counts 0, 3, 0 reports 2, 1, 3
C5_Witness ==
    /\ pc = "done"
    /\ fetchCounts = <<0, 3, 0>>
    /\ summary = <<2, 1, 3>>

\* C6: the quota check is called at most once, with the length of the work
\* list, after a successful load and before any fetch; no fetch happens
\* without it and none after it halted the run
C6_QuotaGate ==
    [][/\ Len(quotaCalls') <= 1
       /\ quotaCalls' # quotaCalls
          => /\ prList # <<>>
             /\ fetchCalls = <<>>
             /\ quotaCalls' = <<Len(prList)>>
       /\ fetchCalls' # fetchCalls
          => /\ quotaCalls = <<Len(prList)>>
             /\ quotaCalls' = quotaCalls
       /\ pc' = "halted" => fetchCalls' = <<>>
       /\ pc = "halted" => fetchCalls' = fetchCalls]_vars

\* a run halted by the quota check on a list of two items
C6_Witness ==
    /\ pc = "halted"
    /\ quotaCalls = <<2>>
    /\ fetchCalls = <<>>

\* C7: when the load fails (unreadable file, header mismatch, no data row, an
\* invalid row) the run ends with status 1 and, in either mode, the output
\* file is as it was, the quota check was not called and nothing was fetched;
\* nothing happens after the exit
C7_LoadFailureIsFatal ==
    [][/\ (/\ pc = "load"
           /\ \/ ~loadPrListFile(inputFile, isVerbose).result
              \/ ~inputFile.openable
              \/ inputFile.header # referenceCSVheader
              \/ inputFile.rows = <<>>
              \/ \E i \in 1..Len(inputFile.rows) : ~DocRowPasses(inputFile.rows[i]))
          => /\ pc' = "exited"
             /\ exitCode' = 1
             /\ outputFile' = outputFileAtStart
             /\ quotaCalls' = <<>>
             /\ fetchCalls' = <<>>
       /\ pc = "exited"
          => /\ outputFile' = outputFile
             /\ quotaCalls' = quotaCalls
             /\ fetchCalls' = fetchCalls]_vars

\* a run in append mode ended on a header with a missing column, the output
\* file being there
C7_Witness ==
    /\ pc = "exited"
    /\ exitCode = 1
    /\ inputFile.header = HdrMissingColumn
    /\ Len(inputFile.rows) = 1
    /\ globalIsAppend
    /\ outputFile.exists

\* C8: the preparation comes before the quota check and the first fetch; it
\* removes an existing output file exactly when the run is not in append
\* mode; in append mode it leaves the file as it is and the content at the
\* start stays a prefix of the file throughout the batch
C8_OutputPreparation ==
    [][/\ pc = "prepare"
          => /\ quotaCalls = <<>> /\ fetchCalls = <<>>
             /\ (outputFile.exists /\ ~outputFile'.exists)
                <=> (~globalIsAppend /\ outputFile.exists)
             /\ outputFile' # outputFile => (~globalIsAppend /\ outputFile.exists)
       /\ globalIsAppend
          => /\ IsPrefix(outputFileAtStart.content, outputFile'.content)
             /\ outputFileAtStart.exists => outputFile'.exists]_vars

\* a batch in append mode that added lines to an existing file
C8_Witness ==
    /\ pc = "done"
    /\ globalIsAppend
    /\ outputFileAtStart.exists
    /\ Len(outputFile.content) > Len(outputFileAtStart.content)
    /\ IsPrefix(OldContent, outputFile.content)

\* C9 as stated: every fetch gets the current item, the append mode chosen
\* for the run, the no-header flag and the output path
C9_FetchGetsRunAppendMode ==
    \A i \in 1..Len(fetchCalls) :
       /\ fetchCalls[i].prSpec = prList[i]
       /\ fetchCalls[i].isAppend = globalIsAppend
       /\ fetchCalls[i].isNoHeader = globalIsNoHeader
       /\ fetchCalls[i].fileName = outputFileName

\* C9 amended: every fetch gets the current item, an append flag that is
\* true in either mode, the no-header flag and the output path
C9_FetchAlwaysAppends ==
    \A i \in 1..Len(fetchCalls) :
       /\ fetchCalls[i].prSpec = prList[i]
       /\ fetchCalls[i].isAppend = TRUE
       /\ fetchCalls[i].isNoHeader = globalIsNoHeader
       /\ fetchCalls[i].fileName = outputFileName

\* a finished batch of a run in overwrite mode
C9_Witness ==
    /\ pc = "done"
    /\ ~globalIsAppend
    /\ Len(fetchCalls) >= 2
    /\ fetchCalls[1].isAppend

\* C10: the fetches follow the work list: one more fetch at a time, the k-th
\* for the k-th item, started only when the items before it are accounted
\* for and shown on the progress bar; the report comes after the last item
C10_FetchesFollowWorkList ==
    [][/\ fetchCalls' # fetchCalls
          => /\ Len(fetchCalls') = Len(fetchCalls) + 1
             /\ Len(fetchCalls') <= Len(prList)
             /\ fetchCalls'[Len(fetchCalls')].prSpec = prList[Len(fetchCalls')]
             /\ SubSeq(fetchCalls', 1, Len(fetchCalls)) = fetchCalls
             /\ nbrPR_noComment + nbrPR_withComments = Len(fetchCalls)
             /\ ~isVerbose => barAdds = Len(fetchCalls)
             /\ summary = <<>>
       /\ summary' # summary
          => /\ Len(fetchCalls) = Len(prList)
             /\ \A i \in 1..Len(prList) : fetchCalls[i].prSpec = prList[i]
             /\ nbrPR_noComment + nbrPR_withComments = Len(prList)
             /\ ~isVerbose => barAdds = Len(prList)
             /\ fetchCalls' = fetchCalls
       /\ pc = "done" => fetchCalls' = fetchCalls]_vars

\* a finished quiet batch whose list holds the same item twice
C10_Witness ==
    /\ pc = "done"
    /\ ~isVerbose
    /\ Len(prList) = 3
    /\ prList[1] = prList[3]
    /\ prList[1] # prList[2]
    /\ Len(fetchCalls) = 3
    /\ summary # <<>>

====
